---- MODULE Spec2Model ----
(***************************************************************************)
(* Model of spellcheck.py: a command-line corrector that resolves a text   *)
(* (argument or standard input), checks the credential, issues one HTTPS   *)
(* POST to the chat-completion endpoint and prints the first choice.       *)
(*                                                                         *)
(* Python str values are sequences of one-character strings, so that       *)
(* str.strip() is computed and not assumed.  Temperatures are fixed-point  *)
(* numbers in tenths (7 stands for 0.7).                                   *)
(***************************************************************************)
EXTENDS Integers, Sequences, FiniteSets, TLC

\* Longest text, standard-input content and completion content explored.
MaxLen == 2

\* ---------------------------------------------------------------- values

\* Python's None, distinct from every str value of the model.
None == <<"<None>">>

\* The characters texts are made of: a letter and a blank.
Chars == {"a", " "}

\* Characters str.strip() removes.
Whitespace == {" ", "\n"}

\* Every str of at most MaxLen characters.
Strings == UNION {[1..n -> Chars] : n \in 0..MaxLen}

\* Python truthiness of an Optional[str]: None and "" are falsy.
Truthy(x) == x # None /\ x # <<>>

RECURSIVE LStrip(_)
LStrip(s) == IF s = <<>> THEN s
             ELSE IF Head(s) \in Whitespace THEN LStrip(Tail(s)) ELSE s

RECURSIVE RStrip(_)
RStrip(s) == IF s = <<>> THEN s
             ELSE IF s[Len(s)] \in Whitespace
                  THEN RStrip(SubSeq(s, 1, Len(s) - 1)) ELSE s

\* str.strip(): leading and trailing whitespace removed.
Strip(s) == RStrip(LStrip(s))

API_URL == <<"https://api.openai.com/v1/chat/completions">>

SYSTEM_PROMPT == <<"corrector-instruction">>

\* The timeout handed to requests.post.
TIMEOUT == 60

\* ------------------------------------------------------------ JSON values

J(t, s, items, f) == [t |-> t, s |-> s, items |-> items, f |-> f]

JNull == J("null", <<>>, <<>>, <<>>)
JNum == J("num", <<>>, <<>>, <<>>)
JStr(s) == J("str", s, <<>>, <<>>)
JList(items) == J("list", <<>>, items, <<>>)
JEmptyObj == J("obj", <<>>, <<>>, <<>>)
JObj(k, v) == J("obj", <<>>, <<>>, k :> v)

\* A body response.json() cannot decode.
NotJson == J("invalid", <<>>, <<>>, <<>>)

\* Values that are not the container or string a level of
\* choices[0].message.content needs.
Scalars == {JNull, JNum}

ContentValues == Scalars \cup {JList(<<>>), JEmptyObj}
                         \cup {JStr(s) : s \in Strings}

MessageValues == Scalars \cup {JStr(<<"a">>), JList(<<>>), JEmptyObj}
                         \cup {JObj("content", c) : c \in ContentValues}

ChoiceValues == Scalars \cup {JStr(<<"a">>), JList(<<>>), JEmptyObj}
                        \cup {JObj("message", m) : m \in MessageValues}

ChoicesValues == Scalars \cup {JStr(<<>>), JStr(<<"a">>), JList(<<>>), JEmptyObj}
                         \cup {JList(<<c>>) : c \in ChoiceValues}

\* Every decoded body the endpoint may answer with.
JsonBodies == Scalars \cup {JStr(<<"a">>), JList(<<>>), JList(<<JEmptyObj>>), JEmptyObj}
                      \cup {JObj("choices", c) : c \in ChoicesValues}

\* ------------------------------------------------------------- exceptions

Exc(type, bases, msg) == [type |-> type, bases |-> bases, msg |-> msg]

NoExc == Exc("none", {}, <<>>)

\* Result of evaluating a Python expression: a value or a raised exception.
Ok(v) == [exc |-> NoExc, v |-> v]
Raise(e) == [exc |-> e, v |-> JNull]

KeyError(k) == Exc("KeyError", {"KeyError", "LookupError", "Exception"}, <<k>>)
IndexError == Exc("IndexError", {"IndexError", "LookupError", "Exception"}, <<"index out of range">>)
TypeError == Exc("TypeError", {"TypeError", "Exception"}, <<"not subscriptable">>)
AttributeError == Exc("AttributeError", {"AttributeError", "Exception"}, <<"no attribute strip">>)

\* x[key] for a str key: only a dict has str keys.
GetItemKey(x, key) ==
    IF x.t = "obj"
    THEN IF key \in DOMAIN x.f THEN Ok(x.f[key]) ELSE Raise(KeyError(key))
    ELSE Raise(TypeError)

\* x[0]: first element of a list, first character of a str; a dict decoded
\* from JSON has no int key.
GetItem0(x) ==
    CASE x.t = "list" -> IF Len(x.items) > 0 THEN Ok(x.items[1]) ELSE Raise(IndexError)
      [] x.t = "str"  -> IF Len(x.s) > 0 THEN Ok(JStr(<<x.s[1]>>)) ELSE Raise(IndexError)
      [] x.t = "obj"  -> Raise(KeyError("0"))
      [] OTHER        -> Raise(TypeError)

\* The content returned untrimmed.
StripMethod_Untrimmed(x) ==
    IF x.t = "str" THEN Ok(JStr(x.s)) ELSE Raise(AttributeError)

\* x.strip(): only str has the method.
StripMethod(x) ==
    IF x.t = "str" THEN Ok(JStr(Strip(x.s))) ELSE Raise(AttributeError)

\* e1 evaluated, then op applied to its value unless e1 raised.
Then(r, Op(_)) == IF r.exc = NoExc THEN Op(r.v) ELSE r

GetChoices(x) == GetItemKey(x, "choices")
GetMessage(x) == GetItemKey(x, "message")
GetContent(x) == GetItemKey(x, "content")

\* data["choices"][0]["message"]["content"].strip()
ExtractContent(d) ==
    Then(Then(Then(Then(GetChoices(d), GetItem0), GetMessage), GetContent), StripMethod)

\* ------------------------------------------------------- request building

Message(role, content) == <<<<"role", role>>, <<"content", content>>>>

\* The user message placed before the instruction.
build_payload_UserFirst(txt, model, temperature) ==
    [model |-> model,
     temperature |-> temperature,
     messages |-> <<[role |-> "user", content |-> txt],
                    [role |-> "system", content |-> SYSTEM_PROMPT]>>]

build_payload(txt, model, temperature) ==
    [model |-> model,
     temperature |-> temperature,
     messages |-> <<[role |-> "system", content |-> SYSTEM_PROMPT],
                    [role |-> "user", content |-> txt]>>]

RECURSIVE DumpMessages(_)
DumpMessages(ms) ==
    IF ms = <<>> THEN <<>>
    ELSE <<Message(Head(ms).role, Head(ms).content)>> \o DumpMessages(Tail(ms))

\* json.dumps of the payload: the members in insertion order.
JsonDumps(p) == <<<<"model", p.model>>,
                  <<"temperature", p.temperature>>,
                  <<"messages", DumpMessages(p.messages)>>>>

Headers(api_key) == [Authorization |-> <<"Bearer", " ">> \o api_key,
                     ContentType |-> "application/json"]

\* The arguments of the requests.post call of call_openai.
PostRequest(txt, api_key, model, temperature) ==
    [url |-> API_URL,
     headers |-> Headers(api_key),
     data |-> JsonDumps(build_payload(txt, model, temperature)),
     timeout |-> TIMEOUT]

\* ------------------------------------------------- the requests library

ConnectionError(cause) ==
    Exc("ConnectionError", {"ConnectionError", "RequestException", "Exception"}, <<cause>>)

Timeout == Exc("Timeout", {"Timeout", "RequestException", "Exception"}, <<"timed out">>)

\* What requests.post raises when no response arrives: name resolution or
\* connection failure, or the timeout expiring.
TransportFailures == {ConnectionError("dns"), ConnectionError("connect"), Timeout}

HTTPError(status) ==
    Exc("HTTPError", {"HTTPError", "RequestException", "Exception"}, <<"http error">>)

\* What response.json() raises on an undecodable body.  requests 2.27 and
\* later raise requests.JSONDecodeError, a RequestException; earlier releases
\* raise the json module's error, a plain ValueError.  The source pins no
\* release, so both are possible.
JSONDecodeError(modern) ==
    IF modern
    THEN Exc("JSONDecodeError",
             {"JSONDecodeError", "InvalidJSONError", "RequestException", "ValueError", "Exception"},
             <<"Expecting value">>)
    ELSE Exc("JSONDecodeError", {"JSONDecodeError", "ValueError", "Exception"},
             <<"Expecting value">>)

Response(status, txt, body) == [status |-> status, text |-> txt, body |-> body]

NoResponse == Response(0, <<>>, NotJson)

\* Statuses the endpoint answers with: success, client error, server error.
Statuses == {200, 401, 500}

\* Response.raise_for_status() raises for 4xx and 5xx.
IsErrorStatus(status) == 400 <= status /\ status < 600

ErrorTexts == {s \in Strings : Len(s) <= 1}

Responses ==
    {Response(st, t, NotJson) : st \in {x \in Statuses : IsErrorStatus(x)}, t \in ErrorTexts}
    \cup {Response(st, <<>>, b) : st \in {x \in Statuses : ~IsErrorStatus(x)},
                                  b \in {NotJson} \cup JsonBodies}

\* ------------------------------------------------------------------ state

VARIABLES
    argv,        \* the command line: text, model, temperature options, help flag
    environ,     \* OPENAI_API_KEY and OPENAI_MODEL
    stdin,       \* the content of standard input
    stdinRead,   \* whether sys.stdin.read() was called
    args,        \* the namespace parse_args returned
    text,        \* main's local text
    api_key,     \* main's local api_key
    pc,          \* the statement the run is at
    sent,        \* the requests.post calls issued, in order
    response,    \* the response of the POST
    data,        \* the decoded response body
    exc,         \* the exception in flight
    corrected,   \* main's local corrected
    stdout,      \* what was written to standard output
    stderr,      \* the diagnostics written to standard error
    ret,         \* main's return value
    exitCode     \* the exit status of the process

vars == <<argv, environ, stdin, stdinRead, args, text, api_key, pc, sent,
          response, data, exc, corrected, stdout, stderr, ret, exitCode>>

\* No return value, no exit status yet.
NoCode == -1

NoArgs == [text |-> None, model |-> None, temperature |-> 0]

TextArgs == {None} \cup Strings

ModelArgs == {None, <<"arg-model">>}

TemperatureArgs == {None, <<"0.7">>, <<"abc">>}

\* float() of the option's value, as argparse applies type=float.
Float(s) == IF s = <<"0.7">> THEN [ok |-> TRUE, v |-> 7] ELSE [ok |-> FALSE, v |-> 0]

\* os.getenv("OPENAI_MODEL", "gpt-4.1-mini")
DEFAULT_MODEL ==
    IF environ.OPENAI_MODEL # None THEN environ.OPENAI_MODEL ELSE <<"gpt-4.1-mini">>

Diag(kind, detail) == [kind |-> kind, detail |-> detail]

Init ==
    /\ argv \in [text : TextArgs, model : ModelArgs,
                 temperature : TemperatureArgs, help : BOOLEAN]
    /\ environ \in [OPENAI_API_KEY : {None, <<>>, <<"sk">>},
                    OPENAI_MODEL : {None, <<"env-model">>}]
    /\ stdin \in Strings
    /\ stdinRead = FALSE
    /\ args = NoArgs
    /\ text = None
    /\ api_key = None
    /\ pc = "parse_args"
    /\ sent = <<>>
    /\ response = NoResponse
    /\ data = NotJson
    /\ exc = NoExc
    /\ corrected = None
    /\ stdout = <<>>
    /\ stderr = <<>>
    /\ ret = NoCode
    /\ exitCode = NoCode

\* ------------------------------------------------------------- parse_args

\* The command line is one argparse rejects: the temperature is no float.
BadCommandLine == argv.temperature # None /\ ~Float(argv.temperature).ok

\* parse_args returns the namespace.
ParseArgs ==
    /\ pc = "parse_args"
    /\ ~argv.help
    /\ ~BadCommandLine
    /\ args' = [text |-> argv.text,
                model |-> IF argv.model = None THEN DEFAULT_MODEL ELSE argv.model,
                temperature |-> IF argv.temperature = None THEN 0
                                ELSE Float(argv.temperature).v]
    /\ pc' = "resolve_text"
    /\ UNCHANGED <<argv, environ, stdin, stdinRead, text, api_key, sent, response,
                   data, exc, corrected, stdout, stderr, ret, exitCode>>

\* -h/--help: argparse prints the help to standard output and exits with 0.
ParseArgsHelp ==
    /\ pc = "parse_args"
    /\ argv.help
    /\ stdout' = Append(stdout, "<help>")
    /\ exitCode' = 0
    /\ pc' = "exited"
    /\ UNCHANGED <<argv, environ, stdin, stdinRead, args, text, api_key, sent,
                   response, data, exc, corrected, stderr, ret>>

\* A value type=float rejects: argparse prints the usage and the error to
\* standard error and exits with 2.  With a help flag on the same command
\* line, whichever option comes first decides.
ParseArgsError ==
    /\ pc = "parse_args"
    /\ BadCommandLine
    /\ stderr' = Append(stderr, Diag("usage", <<>>))
    /\ exitCode' = 2
    /\ pc' = "exited"
    /\ UNCHANGED <<argv, environ, stdin, stdinRead, args, text, api_key, sent,
                   response, data, exc, corrected, stdout, ret>>

\* ------------------------------------------------------------------- main

\* read_stdin(): sys.stdin.read().strip()
read_stdin == Strip(stdin)

\* Standard input read only when the option is absent.
ReadsStdin_NoneOnly(t) == t = None

\* Whether `args.text or read_stdin()` evaluates its right operand.
ReadsStdin(t) == ~Truthy(t)

\* text = args.text or read_stdin()
ResolveText ==
    /\ pc = "resolve_text"
    /\ IF ReadsStdin(args.text)
       THEN text' = read_stdin /\ stdinRead' = TRUE
       ELSE text' = args.text /\ stdinRead' = stdinRead
    /\ pc' = "check_text"
    /\ UNCHANGED <<argv, environ, stdin, args, api_key, sent, response, data, exc,
                   corrected, stdout, stderr, ret, exitCode>>

\* Only a missing text refused.
NotText_NoneOnly(t) == t = None

\* The condition of `if not text`.
NotText(t) == ~Truthy(t)

\* if not text: print(..., file=sys.stderr); return 1
CheckText ==
    /\ pc = "check_text"
    /\ IF NotText(text)
       THEN /\ stderr' = Append(stderr, Diag("no_text", <<>>))
            /\ ret' = 1
            /\ pc' = "returned"
       ELSE /\ pc' = "check_key"
            /\ UNCHANGED <<stderr, ret>>
    /\ UNCHANGED <<argv, environ, stdin, stdinRead, args, text, api_key, sent,
                   response, data, exc, corrected, stdout, exitCode>>

\* Only an unset variable refused.
NotApiKey_NoneOnly(k) == k = None

\* The condition of `if not api_key`.
NotApiKey(k) == ~Truthy(k)

\* api_key = os.getenv("OPENAI_API_KEY"); if not api_key: ...; return 1
CheckKey ==
    /\ pc = "check_key"
    /\ api_key' = environ.OPENAI_API_KEY
    /\ IF NotApiKey(api_key')
       THEN /\ stderr' = Append(stderr, Diag("no_key", <<>>))
            /\ ret' = 1
            /\ pc' = "returned"
       ELSE /\ pc' = "post"
            /\ UNCHANGED <<stderr, ret>>
    /\ UNCHANGED <<argv, environ, stdin, stdinRead, args, text, sent, response,
                   data, exc, corrected, stdout, exitCode>>

\* ------------------------------------------------------------ call_openai

\* requests.post(API_URL, headers=..., data=json.dumps(payload), timeout=60):
\* the call returns a response or raises a transport failure.
Post ==
    /\ pc = "post"
    /\ sent' = Append(sent, PostRequest(text, api_key, args.model, args.temperature))
    /\ \/ \E e \in TransportFailures :
             /\ exc' = e
             /\ pc' = "except"
             /\ UNCHANGED response
       \/ \E r \in Responses :
             /\ response' = r
             /\ pc' = "raise_for_status"
             /\ UNCHANGED exc
    /\ UNCHANGED <<argv, environ, stdin, stdinRead, args, text, api_key, data,
                   corrected, stdout, stderr, ret, exitCode>>

\* response.raise_for_status()
RaiseForStatus ==
    /\ pc = "raise_for_status"
    /\ IF IsErrorStatus(response.status)
       THEN exc' = HTTPError(response.status) /\ pc' = "except"
       ELSE exc' = exc /\ pc' = "json"
    /\ UNCHANGED <<argv, environ, stdin, stdinRead, args, text, api_key, sent,
                   response, data, corrected, stdout, stderr, ret, exitCode>>

\* data = response.json()
ResponseJson ==
    /\ pc = "json"
    /\ IF response.body = NotJson
       THEN /\ \E modern \in BOOLEAN : exc' = JSONDecodeError(modern)
            /\ pc' = "except"
            /\ UNCHANGED data
       ELSE /\ data' = response.body
            /\ pc' = "extract"
            /\ UNCHANGED exc
    /\ UNCHANGED <<argv, environ, stdin, stdinRead, args, text, api_key, sent,
                   response, corrected, stdout, stderr, ret, exitCode>>

\* return data["choices"][0]["message"]["content"].strip()
Extract ==
    /\ pc = "extract"
    /\ LET r == ExtractContent(data)
       IN  IF r.exc = NoExc
           THEN corrected' = r.v.s /\ pc' = "print" /\ UNCHANGED exc
           ELSE exc' = r.exc /\ pc' = "except" /\ UNCHANGED corrected
    /\ UNCHANGED <<argv, environ, stdin, stdinRead, args, text, api_key, sent,
                   response, data, stdout, stderr, ret, exitCode>>

\* ------------------------------------------------------ main's handlers

\* The classes each except clause of main names.
ClauseClasses(name) ==
    CASE name = "HTTPError"        -> {"HTTPError"}
      [] name = "RequestException" -> {"RequestException"}
      [] name = "LookupError"      -> {"KeyError", "IndexError"}

\* The general clause tried before the specific one.
ExceptClauses_GeneralFirst == <<"RequestException", "HTTPError", "LookupError">>

\* The except clauses of main, in source order.
ExceptClauses == <<"HTTPError", "RequestException", "LookupError">>

\* Whether the i-th clause catches an exception of these classes.
Catches(i, e) == ClauseClasses(ExceptClauses[i]) \cap e.bases # {}

\* The first clause that catches the exception, "none" when none does.
Handler(e) ==
    IF \E i \in DOMAIN ExceptClauses : Catches(i, e)
    THEN ExceptClauses[CHOOSE i \in DOMAIN ExceptClauses :
                          /\ Catches(i, e)
                          /\ \A j \in 1..(i - 1) : ~Catches(j, e)]
    ELSE "none"

\* The call tried again after an HTTP error.
HandleHTTPError_Retry ==
    /\ pc = "except"
    /\ Handler(exc) = "HTTPError"
    /\ IF Len(sent) < 2
       THEN pc' = "post" /\ UNCHANGED <<stderr, ret>>
       ELSE /\ stderr' = Append(stderr, Diag("http", <<response.status, response.text>>))
            /\ ret' = 1
            /\ pc' = "returned"
    /\ UNCHANGED <<argv, environ, stdin, stdinRead, args, text, api_key, sent,
                   response, data, exc, corrected, stdout, exitCode>>

\* except requests.HTTPError as exc
HandleHTTPError ==
    /\ pc = "except"
    /\ Handler(exc) = "HTTPError"
    /\ stderr' = Append(stderr, Diag("http", <<response.status, response.text>>))
    /\ ret' = 1
    /\ pc' = "returned"
    /\ UNCHANGED <<argv, environ, stdin, stdinRead, args, text, api_key, sent,
                   response, data, exc, corrected, stdout, exitCode>>

\* except requests.RequestException as exc
HandleRequestException ==
    /\ pc = "except"
    /\ Handler(exc) = "RequestException"
    /\ stderr' = Append(stderr, Diag("request", exc.msg))
    /\ ret' = 1
    /\ pc' = "returned"
    /\ UNCHANGED <<argv, environ, stdin, stdinRead, args, text, api_key, sent,
                   response, data, exc, corrected, stdout, exitCode>>

\* The diagnostic printed without file=sys.stderr.
HandleLookupError_ToStdout ==
    /\ pc = "except"
    /\ Handler(exc) = "LookupError"
    /\ stdout' = stdout \o exc.msg \o <<"\n">>
    /\ ret' = 1
    /\ pc' = "returned"
    /\ UNCHANGED <<argv, environ, stdin, stdinRead, args, text, api_key, sent,
                   response, data, exc, corrected, stderr, exitCode>>

\* except (KeyError, IndexError) as exc
HandleLookupError ==
    /\ pc = "except"
    /\ Handler(exc) = "LookupError"
    /\ stderr' = Append(stderr, Diag("api", exc.msg))
    /\ ret' = 1
    /\ pc' = "returned"
    /\ UNCHANGED <<argv, environ, stdin, stdinRead, args, text, api_key, sent,
                   response, data, exc, corrected, stdout, exitCode>>

\* No clause matches: the exception leaves main.
Propagate ==
    /\ pc = "except"
    /\ Handler(exc) = "none"
    /\ pc' = "uncaught"
    /\ UNCHANGED <<argv, environ, stdin, stdinRead, args, text, api_key, sent,
                   response, data, exc, corrected, stdout, stderr, ret, exitCode>>

\* print(corrected); return 0
PrintCorrected ==
    /\ pc = "print"
    /\ stdout' = stdout \o corrected \o <<"\n">>
    /\ ret' = 0
    /\ pc' = "returned"
    /\ UNCHANGED <<argv, environ, stdin, stdinRead, args, text, api_key, sent,
                   response, data, exc, corrected, stderr, exitCode>>

\* ------------------------------------------------------------- __main__

\* raise SystemExit(main()): the process exits with main's return value.
Exit ==
    /\ pc = "returned"
    /\ exitCode' = ret
    /\ pc' = "exited"
    /\ UNCHANGED <<argv, environ, stdin, stdinRead, args, text, api_key, sent,
                   response, data, exc, corrected, stdout, stderr, ret>>

\* An exception no clause caught reaches the interpreter, which prints the
\* traceback to standard error and exits with 1.
Traceback ==
    /\ pc = "uncaught"
    /\ stderr' = Append(stderr, Diag("traceback", <<exc.type>>))
    /\ exitCode' = 1
    /\ pc' = "exited"
    /\ UNCHANGED <<argv, environ, stdin, stdinRead, args, text, api_key, sent,
                   response, data, exc, corrected, stdout, ret>>

Next ==
    \/ ParseArgs
    \/ ParseArgsHelp
    \/ ParseArgsError
    \/ ResolveText
    \/ CheckText
    \/ CheckKey
    \/ Post
    \/ RaiseForStatus
    \/ ResponseJson
    \/ Extract
    \/ HandleHTTPError
    \/ HandleRequestException
    \/ HandleLookupError
    \/ Propagate
    \/ PrintCorrected
    \/ Exit
    \/ Traceback

Spec == Init /\ [][Next]_vars

\* The run is sequential and every blocking call is bounded (the POST by its
\* timeout), so a step that can be taken is taken.
FairSpec == Spec /\ WF_vars(Next)

\* ------------------------------------------------------------ properties

\* The argument parser accepted the command line and main went on.
Accepted == args # NoArgs

\* main evaluated `args.text or read_stdin()`.
Resolved == text # None

Exited == pc = "exited"

AllWhitespace(s) == \A i \in 1..Len(s) : s[i] \in Whitespace

\* t is s without its leading and trailing whitespace.
IsTrimOf(t, s) ==
    /\ t = <<>> \/ (t[1] \notin Whitespace /\ t[Len(t)] \notin Whitespace)
    /\ \E i \in 0..Len(s) : \E j \in i..Len(s) :
          /\ t = SubSeq(s, i + 1, j)
          /\ AllWhitespace(SubSeq(s, 1, i))
          /\ AllWhitespace(SubSeq(s, j + 1, Len(s)))

\* The decoded body has choices[0].message.content, a string.
WellFormed(d) ==
    /\ d.t = "obj" /\ "choices" \in DOMAIN d.f
    /\ d.f["choices"].t = "list" /\ Len(d.f["choices"].items) > 0
    /\ LET c == d.f["choices"].items[1]
       IN  /\ c.t = "obj" /\ "message" \in DOMAIN c.f
           /\ c.f["message"].t = "obj" /\ "content" \in DOMAIN c.f["message"].f
           /\ c.f["message"].f["content"].t = "str"

\* The content string of a well-formed body.
ContentOf(d) == d.f["choices"].items[1].f["message"].f["content"].s

\* Standard error holds exactly one diagnostic, of this kind.
OnlyDiag(kind) == Len(stderr) = 1 /\ stderr[1].kind = kind

\* The endpoint answered with a success status and a well-formed body.
Succeeded == response.status = 200 /\ response.body # NotJson /\ WellFormed(response.body)

\* The POST was issued and no response arrived.
TransportFailed == sent # <<>> /\ pc # "post" /\ response = NoResponse

\* Standard output holds the corrected text and its newline.
PrintedCorrected == corrected # None /\ stdout = corrected \o <<"\n">>

\* C1 (as stated): every run ends with exit code 0 and the corrected text on
\* standard output, or with exit code 1, nothing on standard output and a
\* diagnostic on standard error; no other exit code occurs.
C1_TwoOutcomes ==
    Exited => \/ exitCode = 0 /\ PrintedCorrected
              \/ exitCode = 1 /\ stdout = <<>> /\ stderr # <<>>

\* C1 (amended): a run whose command line the argument parser accepts ends
\* with exit code 0 and the corrected text on standard output, or with exit
\* code 1, nothing on standard output and one diagnostic (for an exception
\* main does not catch, the interpreter's traceback) on standard error; a run
\* the parser ends itself exits with 0 after printing the help to standard
\* output, or with 2 after printing the usage error to standard error, and
\* calls nothing else.  Standard output is written only by the help or by a
\* run that returns 0.
C1_Outcomes ==
    /\ Exited =>
          \/ Accepted /\ exitCode = 0 /\ ret = 0 /\ PrintedCorrected /\ stderr = <<>>
          \/ Accepted /\ exitCode = 1 /\ stdout = <<>> /\ Len(stderr) = 1
          \/ /\ ~Accepted /\ argv.help /\ exitCode = 0
             /\ stdout = <<"<help>">> /\ stderr = <<>> /\ sent = <<>> /\ ~stdinRead
          \/ /\ ~Accepted /\ BadCommandLine /\ exitCode = 2
             /\ stdout = <<>> /\ OnlyDiag("usage") /\ sent = <<>> /\ ~stdinRead
    /\ stdout # <<>> => ret = 0 \/ (~Accepted /\ argv.help)

\* A run that ended with exit code 1 on an undecodable body of a success
\* response.
C1_Witness ==
    /\ Exited /\ Accepted /\ exitCode = 1
    /\ response.status = 200 /\ response.body = NotJson /\ stdout = <<>>

\* C2: an empty resolved text (option absent or empty, standard input empty
\* or whitespace only) gives the "no text" diagnostic and exit code 1 without
\* any POST, whether or not the credential is set.
C2_EmptyText ==
    /\ (Resolved /\ text = <<>>) =>
          /\ sent = <<>>
          /\ pc \in {"check_text", "returned", "exited"}
          /\ pc # "check_text" => OnlyDiag("no_text") /\ ret = 1 /\ stdout = <<>>
          /\ Exited => exitCode = 1
    /\ (Exited /\ Accepted /\ argv.text \in {None, <<>>} /\ AllWhitespace(stdin)) =>
          OnlyDiag("no_text") /\ exitCode = 1 /\ sent = <<>>

\* A run with the credential set, an empty text option and blank standard
\* input that ended with the "no text" diagnostic.
C2_Witness ==
    /\ Exited /\ Resolved /\ text = <<>> /\ argv.text = <<>> /\ stdin = <<" ">>
    /\ environ.OPENAI_API_KEY = <<"sk">> /\ OnlyDiag("no_text")

\* C3: a non-empty text with OPENAI_API_KEY unset or empty gives the "missing
\* credential" diagnostic and exit code 1 without any POST.
C3_MissingKey ==
    (Resolved /\ text # <<>> /\ environ.OPENAI_API_KEY \in {None, <<>>}) =>
       /\ sent = <<>>
       /\ pc \in {"check_text", "check_key", "returned", "exited"}
       /\ pc \in {"returned", "exited"} => OnlyDiag("no_key") /\ ret = 1 /\ stdout = <<>>
       /\ Exited => exitCode = 1

\* A run with a text and the credential set to the empty string that ended
\* with the "missing credential" diagnostic.
C3_Witness ==
    /\ Exited /\ Resolved /\ text # <<>> /\ environ.OPENAI_API_KEY = <<>>
    /\ OnlyDiag("no_key") /\ exitCode = 1

\* C4 (as stated): whenever a text option was supplied, the empty string
\* included, the resolved text is that option verbatim and standard input is
\* never read; standard input is read only when no text option was supplied.
C4_AnyArgument ==
    /\ argv.text # None => ~stdinRead /\ (Resolved => text = argv.text)
    /\ stdinRead => argv.text = None

\* C4 (amended): whenever a non-empty text option was supplied, the resolved
\* text is that option verbatim (untrimmed) and standard input is never read;
\* standard input is read exactly when the option is absent or the empty
\* string, and the resolved text is then the trimmed standard input.
C4_NonEmptyArgument ==
    /\ Truthy(argv.text) => ~stdinRead /\ (Resolved => text = argv.text)
    /\ stdinRead => argv.text \in {None, <<>>} /\ IsTrimOf(text, stdin)
    /\ (Resolved /\ argv.text \in {None, <<>>}) => stdinRead

\* A run given an untrimmed text option and non-empty standard input, which
\* resolved the option verbatim and left standard input unread.
C4_Witness ==
    /\ Exited /\ Resolved /\ argv.text = <<" ", "a">> /\ text = <<" ", "a">>
    /\ stdin # <<>> /\ ~stdinRead

\* C5: a success response whose decoded body lacks choices[0].message.content
\* in any way ends the run with the malformed-response diagnostic and exit
\* code 1, never with an uncaught exception or another kind of failure.
C5_Malformed ==
    (Exited /\ response.status = 200 /\ response.body # NotJson
            /\ ~WellFormed(response.body)) =>
       OnlyDiag("api") /\ ret = 1 /\ exitCode = 1 /\ stdout = <<>>

\* C6: an HTTP error status is reported by the HTTP diagnostic with the
\* status code and the body text, exit code 1 and nothing on standard output,
\* never by the transport diagnostic.
C6_HttpError ==
    (response # NoResponse /\ IsErrorStatus(response.status)) =>
       /\ stdout = <<>>
       /\ pc \in {"raise_for_status", "except", "returned", "exited"}
       /\ pc \in {"returned", "exited"} =>
             /\ OnlyDiag("http")
             /\ stderr[1].detail = <<response.status, response.text>>
             /\ ret = 1
       /\ Exited => exitCode = 1

\* A run that ended on a 401 response with a body text.
C6_Witness ==
    /\ Exited /\ response.status = 401 /\ response.text = <<"a">>
    /\ OnlyDiag("http") /\ exitCode = 1

\* C7: a POST that fails at the network level gives the transport diagnostic
\* with its cause, exit code 1 and nothing on standard output, and the
\* transport diagnostic is printed only when no response arrived.
C7_Transport ==
    /\ (Exited /\ TransportFailed) =>
          /\ OnlyDiag("request") /\ stderr[1].detail = exc.msg
          /\ exitCode = 1 /\ stdout = <<>>
    /\ (\E i \in DOMAIN stderr : stderr[i].kind = "request") => TransportFailed

\* C8 (as stated): a success response with content c makes main print c
\* trimmed and a newline, nothing to standard error, and return 0; no run
\* ends with exit code 0 in any other way.
C8_OnlyZero ==
    /\ (Exited /\ Accepted /\ Succeeded) =>
          /\ IsTrimOf(corrected, ContentOf(response.body))
          /\ PrintedCorrected /\ stderr = <<>> /\ ret = 0 /\ exitCode = 0
    /\ exitCode = 0 => Truthy(text) /\ Truthy(api_key) /\ Succeeded

\* C8 (amended): a success response with content c makes main print c
\* trimmed and a newline, nothing to standard error, and return 0; main
\* returns 0 in no other way, and the only other run that exits with status 0
\* is one the argument parser ends after printing the help.
C8_Success ==
    /\ (Exited /\ Accepted /\ Succeeded) =>
          /\ IsTrimOf(corrected, ContentOf(response.body))
          /\ PrintedCorrected /\ stderr = <<>> /\ ret = 0 /\ exitCode = 0
    /\ ret = 0 => Truthy(text) /\ Truthy(api_key) /\ Succeeded
    /\ exitCode = 0 => ret = 0 \/ (~Accepted /\ argv.help)

\* A run that printed the trimmed form of a content with leading whitespace.
C8_Witness ==
    /\ Exited /\ Succeeded /\ ContentOf(response.body) = <<" ", "a">>
    /\ stdout = <<"a", "\n">> /\ exitCode = 0

Models == {<<"gpt-4.1-mini">>, <<"env-model">>, <<"arg-model">>}

\* C9: build_payload returns exactly two messages, the system instruction
\* first and the unchanged text second, with the model and temperature given;
\* the body of every POST is that request built from the resolved text (the
\* option verbatim, or the trimmed standard input).
C9_Payload ==
    /\ \A t \in Strings : \A m \in Models : \A temp \in {0, 7} :
          LET p == build_payload(t, m, temp)
          IN  /\ Len(p.messages) = 2
              /\ p.messages[1].role = "system" /\ p.messages[1].content = SYSTEM_PROMPT
              /\ p.messages[2].role = "user" /\ p.messages[2].content = t
              /\ p.model = m /\ p.temperature = temp
    /\ \A i \in DOMAIN sent :
          /\ sent[i].data =
                <<<<"model", IF argv.model = None THEN DEFAULT_MODEL ELSE argv.model>>,
                  <<"temperature", IF argv.temperature = None THEN 0 ELSE 7>>,
                  <<"messages", <<<<<<"role", "system">>, <<"content", SYSTEM_PROMPT>>>>,
                                  <<<<"role", "user">>, <<"content", text>>>>>>>>>>
          /\ IF Truthy(argv.text) THEN text = argv.text ELSE IsTrimOf(text, stdin)

\* A POST whose user message is the trimmed standard input.
C9_Witness ==
    /\ sent # <<>> /\ stdinRead /\ stdin = <<" ", "a">> /\ text = <<"a">>
    /\ argv.temperature # None /\ argv.model # None

\* C10: a run issues at most one POST, only after the text check and the
\* credential check passed, never again after a failure, and every run
\* reaches its exit.
C10_SinglePost ==
    /\ [](/\ Len(sent) <= 1
          /\ sent # <<>> => /\ Truthy(text) /\ Truthy(api_key)
                            /\ api_key = environ.OPENAI_API_KEY
                            /\ pc \notin {"parse_args", "resolve_text", "check_text",
                                          "check_key", "post"})
    /\ <>Exited

\* A run that ended after an HTTP error with its single POST.
C10_Witness ==
    /\ Exited /\ Len(sent) = 1 /\ OnlyDiag("http") /\ response.status = 500

====
